---- MODULE Spec2Model ----
(***************************************************************************)
(* PQ-gram profiles (pqgrams/PQGram.py): the construction of a Profile     *)
(* from an ordered labelled tree, its sort, the merge-scan intersection,   *)
(* the edit distance derived from it, and the lru_cache memoization of     *)
(* __len__ and __getitem__.                                                *)
(*                                                                         *)
(* A Python str is a sequence of code points, compared as Python compares  *)
(* it (lexicographically, a proper prefix first).  A gram is a tuple of    *)
(* labels.  A tree node is a record [label, children].                     *)
(***************************************************************************)
EXTENDS Integers, Sequences, FiniteSets, TLC

VARIABLES
    pool,           \* the trees the caller draws from: "bounded" or "test"
    rootA, rootB,   \* the trees handed to Profile(root, p, q)
    p, q,           \* the p and q handed to Profile(root, p, q)
    pc,             \* where Profile.__init__ stands: "start", "run", "done", "error"
    stack,          \* the call stack of Profile.profile, the root's frame first
    heap,           \* the deque objects `ancestors` refers to, by reference
    list,           \* self.list of the Profile under construction
    visited,        \* how many nodes Profile.profile has entered
    profA, profB,   \* self.list of two constructed Profiles (NoProfile before)
    last,           \* the last call made on the two Profiles and what it returned
    lists,          \* self.list of every live Profile object
    lenCache,       \* the lru_cache of Profile.__len__, most recently used first
    itemCache,      \* the lru_cache of Profile.__getitem__, most recently used first
    ret,            \* the last call on a cached Profile and what it returned
    ops             \* how many calls were made on the cached Profiles

inVars    == <<pool, rootA, rootB, p, q>>
buildVars == <<pc, stack, heap, list, visited>>
cmpVars   == <<profA, profB, last>>
cacheVars == <<lists, lenCache, itemCache, ret, ops>>
vars      == <<pool, rootA, rootB, p, q, pc, stack, heap, list, visited,
               profA, profB, last, lists, lenCache, itemCache, ret, ops>>

----------------------------------------------------------------------------
(* Bounds of the model. *)

\* Trees of at most MaxNodes nodes are built step by step.
MaxNodes == 4
\* Trees of at most MaxCmpNodes nodes are compared pairwise.
MaxCmpNodes == 3
\* p ranges over -1..MaxP and q over -1..MaxQ in the construction.
MaxP == 2
MaxQ == 3
\* p and q range over 1..MaxCmpParam in the comparison.
MaxCmpParam == 2
\* Calls made on the two Profiles whose memoized reads are followed, each
\* Profile constructed from a tree of at most MaxCacheNodes nodes.
MaxOps == 4
MaxCacheNodes == 2

----------------------------------------------------------------------------
(* Strings and tuples. *)

Star    == <<42>>            \* "*"
LabelA  == <<97>>            \* "a"
LabelAA == <<97, 97>>        \* "aa"
LabelB  == <<98>>            \* "b"
LabelC  == <<99>>            \* "c"
LabelE  == <<101>>           \* "e"
LabelX  == <<120>>           \* "x"

Min(a, b) == IF a <= b THEN a ELSE b

\* Python's s < t on two str.
StrLess(s, t) ==
    \E k \in 0..Min(Len(s), Len(t)) :
        /\ \A i \in 1..k : s[i] = t[i]
        /\ \/ k = Len(s) /\ k < Len(t)
           \/ k < Len(s) /\ k < Len(t) /\ s[k + 1] < t[k + 1]

\* Python's g < h on two tuples of str.
TupleLess(g, h) ==
    \E k \in 0..Min(Len(g), Len(h)) :
        /\ \A i \in 1..k : g[i] = h[i]
        /\ \/ k = Len(g) /\ k < Len(h)
           \/ k < Len(g) /\ k < Len(h) /\ StrLess(g[k + 1], h[k + 1])

\* ''.join(x): the labels of a gram, concatenated.
RECURSIVE Join(_)
Join(x) == IF x = <<>> THEN <<>> ELSE Head(x) \o Join(Tail(x))

\* '*' * n as the iterable the deques are filled from (empty when n <= 0).
Stars(n) == [i \in 1..n |-> Star]

----------------------------------------------------------------------------
(* collections.deque with maxlen. *)

\* deque(iterable, maxlen=n), n >= 0: the last n items of the iterable.
NewDeque(iterable, n) ==
    [items  |-> IF Len(iterable) <= n THEN iterable
                ELSE SubSeq(iterable, Len(iterable) - n + 1, Len(iterable)),
     maxlen |-> n]

DequeAppendNoEvict(d, x) == [d EXCEPT !.items = Append(@, x)]

\* deque.append(x): a full deque drops its leftmost item.
DequeAppend(d, x) ==
    IF d.maxlen = 0 THEN d
    ELSE IF Len(d.items) = d.maxlen
         THEN [d EXCEPT !.items = Append(Tail(@), x)]
         ELSE [d EXCEPT !.items = Append(@, x)]

----------------------------------------------------------------------------
(* Profile.sort and Profile.append. *)

\* list.sort(key=...) is stable: x goes after every item whose key is not
\* greater than its own.
RECURSIVE InsertByKey(_, _)
InsertByKey(sorted, x) ==
    IF sorted = <<>> THEN <<x>>
    ELSE IF StrLess(Join(x), Join(Head(sorted)))
         THEN <<x>> \o sorted
         ELSE <<Head(sorted)>> \o InsertByKey(Tail(sorted), x)

RECURSIVE SortFrom(_, _)
SortFrom(sorted, rest) ==
    IF rest = <<>> THEN sorted
    ELSE SortFrom(InsertByKey(sorted, Head(rest)), Tail(rest))

\* Profile.sort: self.list.sort(key=lambda x: ''.join(x)).
Sort(l) == SortFrom(<<>>, l)

\* Profile.append: self.list.append(tuple(value)).
ProfileAppend(l, value) == Append(l, value)

----------------------------------------------------------------------------
(* Profile.__init__ and Profile.profile, one step at a time.  A machine is *)
(* [pc, stack, heap, list, visited]; a frame of Profile.profile is         *)
(* [node, anc, siblings, idx, tail, at].                                   *)

NoDeque == [items |-> <<>>, maxlen |-> 0]

Frame(node, ancRef) ==
    [node |-> node, anc |-> ancRef, siblings |-> NoDeque,
     idx |-> 0, tail |-> 0, at |-> "enter"]

Top(s) == s[Len(s)]
Pop(s) == SubSeq(s, 1, Len(s) - 1)
SetTop(s, f) == [s EXCEPT ![Len(s)] = f]

\* itertools.chain(ancestors, siblings) as append() turns it into a tuple.
Chain(ancestors, siblings) == ancestors.items \o siblings.items

ShareRef(h, ref) == [heap |-> h, ref |-> ref]

\* copy.copy(ancestors): a new deque object with the same items and maxlen.
CopyRef(h, ref) == [heap |-> Append(h, h[ref]), ref |-> Len(h) + 1]

TailCountOffByOne(qq) == qq

\* range(q-1): the number of trailing grams of a node with children.
TailCount(qq) == qq - 1

\* __init__ up to the call of self.profile: deque('*'*p, maxlen=p) raises
\* ValueError when p < 0.
InitStep(root, pp) ==
    IF pp < 0
    THEN [pc |-> "error", stack |-> <<>>, heap |-> <<>>, list |-> <<>>, visited |-> 0]
    ELSE [pc |-> "run", stack |-> <<Frame(root, 1)>>,
          heap |-> <<NewDeque(Stars(pp), pp)>>, list |-> <<>>, visited |-> 0]

\* profile(): ancestors.append(root.label); siblings = deque('*'*q, maxlen=q),
\* which raises ValueError when q < 0.
EnterStep(m, qq) ==
    LET f == Top(m.stack)
        h == [m.heap EXCEPT ![f.anc] = DequeAppend(@, f.node.label)]
    IN  IF qq < 0
        THEN [m EXCEPT !.pc = "error", !.heap = h, !.visited = @ + 1]
        ELSE [m EXCEPT !.heap = h, !.visited = @ + 1,
                       !.stack = SetTop(@, [f EXCEPT !.siblings = NewDeque(Stars(qq), qq),
                                                     !.at = "body"])]

\* profile(), a node without children: one gram, and the call returns.
LeafStep(m) ==
    LET f == Top(m.stack)
    IN  [m EXCEPT !.list = ProfileAppend(@, Chain(m.heap[f.anc], f.siblings)),
                  !.stack = Pop(@)]

\* profile(), one turn of `for child in root.children` up to the recursive call.
ChildStep(m) ==
    LET f  == Top(m.stack)
        c  == f.node.children[f.idx + 1]
        s  == DequeAppend(f.siblings, c.label)
        cp == CopyRef(m.heap, f.anc)
    IN  [m EXCEPT !.list  = ProfileAppend(@, Chain(m.heap[f.anc], s)),
                  !.heap  = cp.heap,
                  !.stack = Append(SetTop(@, [f EXCEPT !.siblings = s, !.idx = @ + 1]),
                                   Frame(c, cp.ref))]

\* profile(), one turn of `for i in range(q-1)`.
TailStep(m) ==
    LET f == Top(m.stack)
        s == DequeAppend(f.siblings, Star)
    IN  [m EXCEPT !.list  = ProfileAppend(@, Chain(m.heap[f.anc], s)),
                  !.stack = SetTop(@, [f EXCEPT !.siblings = s, !.tail = @ + 1])]

\* profile() of a node with children returns.
ReturnStep(m) == [m EXCEPT !.stack = Pop(@)]

\* __init__ after self.profile returned: self.sort().
SortStep(m) == [m EXCEPT !.list = Sort(@), !.pc = "done"]

AtEnter(m)  == m.pc = "run" /\ m.stack # <<>> /\ Top(m.stack).at = "enter"
AtBody(m)   == m.pc = "run" /\ m.stack # <<>> /\ Top(m.stack).at = "body"
AtLeaf(m)   == AtBody(m) /\ Len(Top(m.stack).node.children) = 0
AtChild(m)  == AtBody(m) /\ Top(m.stack).idx < Len(Top(m.stack).node.children)
AtTail(m, qq) ==
    /\ AtBody(m) /\ Len(Top(m.stack).node.children) > 0
    /\ Top(m.stack).idx = Len(Top(m.stack).node.children)
    /\ Top(m.stack).tail < TailCount(qq)
AtReturn(m, qq) ==
    /\ AtBody(m) /\ Len(Top(m.stack).node.children) > 0
    /\ Top(m.stack).idx = Len(Top(m.stack).node.children)
    /\ Top(m.stack).tail >= TailCount(qq)
AtSort(m)   == m.pc = "run" /\ m.stack = <<>>

\* The next step of a construction under way.
BuildStep(m, qq) ==
    IF AtEnter(m) THEN EnterStep(m, qq)
    ELSE IF AtLeaf(m) THEN LeafStep(m)
    ELSE IF AtChild(m) THEN ChildStep(m)
    ELSE IF AtTail(m, qq) THEN TailStep(m)
    ELSE IF AtReturn(m, qq) THEN ReturnStep(m)
    ELSE SortStep(m)

RECURSIVE RunBuild(_, _)
RunBuild(m, qq) ==
    IF m.pc \in {"done", "error"} THEN m ELSE RunBuild(BuildStep(m, qq), qq)

\* Profile(root, p, q) run to its end: pc is "done" and list is self.list, or pc
\* is "error" when the constructor raised.
Profile(root, pp, qq) == RunBuild(InitStep(root, pp), qq)

----------------------------------------------------------------------------
(* Profile.intersection, Profile.gram_edit_distance, Profile.edit_distance. *)
(* A Profile is read here as its list: no Profile is changed between its   *)
(* construction and these calls, so the memoized __len__ and __getitem__   *)
(* return what the list holds (CacheCoherentUntilChanged below).           *)

GramEditDistanceAlwaysOne(gram1, gram2) == 1

\* gram_edit_distance: 1.0 when the two grams are equal, 0.0 otherwise.
GramEditDistance(gram1, gram2) == IF gram1 = gram2 THEN 1 ELSE 0

ScanStepAdvanceOne(A, B, st) ==
    LET a == A[st.i + 1]
        b == B[st.j + 1]
        n == st.intersect + GramEditDistance(a, b)
    IN  IF a = b \/ TupleLess(a, b)
        THEN [i |-> st.i + 1, j |-> st.j, intersect |-> n]
        ELSE [i |-> st.i, j |-> st.j + 1, intersect |-> n]

\* One turn of the while loop of intersection.
ScanStep(A, B, st) ==
    LET a == A[st.i + 1]
        b == B[st.j + 1]
        n == st.intersect + GramEditDistance(a, b)
    IN  IF a = b THEN [i |-> st.i + 1, j |-> st.j + 1, intersect |-> n]
        ELSE IF TupleLess(a, b) THEN [i |-> st.i + 1, j |-> st.j, intersect |-> n]
        ELSE [i |-> st.i, j |-> st.j + 1, intersect |-> n]

RECURSIVE Scan(_, _, _)
Scan(A, B, st) ==
    IF st.i < Len(A) /\ st.j < Len(B) THEN Scan(A, B, ScanStep(A, B, st))
    ELSE st.intersect

\* self.intersection(other), self.list = A and other.list = B.
Intersection(A, B) == Scan(A, B, [i |-> 0, j |-> 0, intersect |-> 0])

EditDistanceNoDouble(A, B) ==
    LET union == Len(A) + Len(B)
    IN  IF union = 0 THEN [num |-> 0, den |-> 0]
        ELSE [num |-> union - Intersection(A, B), den |-> union]

\* self.edit_distance(other): 1.0 - 2.0*(intersection/union) as the fraction
\* num/den, union = den; den = 0 stands for the ZeroDivisionError of union = 0.
EditDistance(A, B) ==
    LET union == Len(A) + Len(B)
    IN  IF union = 0 THEN [num |-> 0, den |-> 0]
        ELSE [num |-> union - 2 * Intersection(A, B), den |-> union]

\* round(d, 2) of the test, in hundredths (no fraction met here is a tie).
Round2(d) == (200 * d.num + d.den) \div (2 * d.den)

----------------------------------------------------------------------------
(* The trees handed to the constructor. *)

Labels == {LabelA, LabelAA}

Node(l, cs) == [label |-> l, children |-> cs]

RECURSIVE TreesOfSize(_), ForestsOfSize(_)
\* The trees of exactly n nodes, and the child sequences of k nodes in all.
TreesOfSize(n) == {Node(l, cs) : l \in Labels, cs \in ForestsOfSize(n - 1)}
ForestsOfSize(k) ==
    IF k = 0 THEN {<<>>}
    ELSE UNION {{<<t>> \o f : t \in TreesOfSize(j), f \in ForestsOfSize(k - j)} : j \in 1..k}

Trees(n) == UNION {TreesOfSize(k) : k \in 1..n}

\* The labels on the path from the root to the node of frame k, its own included.
PathLabels(s, k) == [i \in 1..k |-> s[i].node.label]

\* Stands for a Profile not constructed yet: no gram holds the label <<0>>.
NoProfile == <<(<<(<<0>>)>>)>>
NoCall == [op |-> "none"]

CmpIdle == profA = NoProfile /\ profB = NoProfile /\ last = NoCall
CacheIdle ==
    /\ lists = <<>> /\ lenCache = <<>> /\ itemCache = <<>>
    /\ ret = NoCall /\ ops = 0

----------------------------------------------------------------------------
(* The construction of one Profile, step by step. *)

Mach == [pc |-> pc, stack |-> stack, heap |-> heap, list |-> list, visited |-> visited]

SetMach(m) ==
    /\ pc' = m.pc /\ stack' = m.stack /\ heap' = m.heap
    /\ list' = m.list /\ visited' = m.visited
    /\ UNCHANGED <<inVars, cmpVars, cacheVars>>

InitBuild ==
    /\ pool = "bounded"
    /\ rootA \in Trees(MaxNodes) /\ rootB = rootA
    /\ p \in -1..MaxP /\ q \in -1..MaxQ
    /\ pc = "start" /\ stack = <<>> /\ heap = <<>> /\ list = <<>> /\ visited = 0
    /\ CmpIdle /\ CacheIdle

Construct == pc = "start" /\ SetMach(InitStep(rootA, p))
Enter     == AtEnter(Mach) /\ SetMach(EnterStep(Mach, q))
Leaf      == AtLeaf(Mach) /\ SetMach(LeafStep(Mach))
Child     == AtChild(Mach) /\ SetMach(ChildStep(Mach))
TailGram  == AtTail(Mach, q) /\ SetMach(TailStep(Mach))
Return    == AtReturn(Mach, q) /\ SetMach(ReturnStep(Mach))
SortList  == AtSort(Mach) /\ SetMach(SortStep(Mach))

NextBuild == Construct \/ Enter \/ Leaf \/ Child \/ TailGram \/ Return \/ SortList

Spec == InitBuild /\ [][NextBuild]_vars

----------------------------------------------------------------------------
(* What the construction is to produce, stated over the tree alone. *)

\* The last pp entries of pp placeholders followed by the labels of the path.
AncOf(path, pp) ==
    LET s == Stars(pp) \o path
    IN  SubSeq(s, Len(s) - pp + 1, Len(s))

\* The windows of length qq over qq-1 placeholders, the children's labels and
\* qq-1 placeholders.
Windows(node, qq) ==
    LET k == Len(node.children)
        w == Stars(qq - 1) \o [i \in 1..k |-> node.children[i].label] \o Stars(qq - 1)
    IN  [i \in 1..(k + qq - 1) |-> SubSeq(w, i, i + qq - 1)]

RECURSIVE ExpectedGrams(_, _, _, _), ExpectedOfChildren(_, _, _, _)
ExpectedGrams(node, path, pp, qq) ==
    IF node.children = <<>> THEN <<AncOf(path, pp) \o Stars(qq)>>
    ELSE LET w == Windows(node, qq)
         IN  [i \in 1..Len(w) |-> AncOf(path, pp) \o w[i]]
             \o ExpectedOfChildren(node.children, path, pp, qq)
ExpectedOfChildren(cs, path, pp, qq) ==
    IF cs = <<>> THEN <<>>
    ELSE ExpectedGrams(Head(cs), Append(path, Head(cs).label), pp, qq)
         \o ExpectedOfChildren(Tail(cs), path, pp, qq)

Count(g, s) == Cardinality({i \in DOMAIN s : s[i] = g})
SameBag(s, t) ==
    /\ Len(s) = Len(t)
    /\ \A i \in DOMAIN s : Count(s[i], s) = Count(s[i], t)

\* C5: for p >= 1 and q >= 1 the grams of a constructed Profile are, as a
\* multiset, one gram anc(n) + q placeholders per leaf n and the k + q - 1 grams
\* anc(n) + window per node n with k >= 1 children; a single node labelled a
\* with p = 2, q = 3 gives exactly [(*, a, *, *, *)].
C5_ProfileIsExpectedGrams ==
    (pc = "done" /\ p >= 1 /\ q >= 1) =>
        /\ SameBag(list, ExpectedGrams(rootA, <<rootA.label>>, p, q))
        /\ (rootA = Node(LabelA, <<>>) /\ p = 2 /\ q = 3) =>
               list = <<(<<Star, LabelA, Star, Star, Star>>)>>

C5_Witness ==
    /\ pc = "done" /\ p = 2 /\ q = 3
    /\ Len(rootA.children) = 2 /\ Len(rootA.children[1].children) = 1
    /\ Len(list) = 9

\* C6: with p <= 0 or q <= 0 the constructor fails before any node is visited
\* and before any gram is emitted, and no Profile is returned.
C6_InvalidParametersRejected ==
    (p <= 0 \/ q <= 0) => (pc # "done" /\ visited = 0 /\ list = <<>>)

\* C8: in a constructed Profile (p >= 1, q >= 1) equal grams are adjacent.
C8_EqualGramsAdjacent ==
    (pc = "done" /\ p >= 1 /\ q >= 1) =>
        \A i, k \in DOMAIN list :
            (i < k /\ list[i] = list[k]) => \A j \in i..k : list[j] = list[i]

\* C9: a recursive call leaves the caller's ancestor window unchanged: from
\* its entry on, the window of every frame on the stack is the last p entries
\* of p placeholders followed by the labels of the path to its node, whatever
\* the calls made for its children did.
C9_AncestorsUnchangedByRecursion ==
    \A k \in 1..Len(stack) :
        stack[k].at = "body" =>
            heap[stack[k].anc].items = AncOf(PathLabels(stack, k), p)

\* The root's frame after two children returned, the first with a subtree.
C9_Witness ==
    /\ p = 2 /\ pc = "run" /\ Len(stack) = 1
    /\ stack[1].idx = 2 /\ Len(rootA.children[1].children) = 1

----------------------------------------------------------------------------
(* Two Profiles constructed and compared. *)

\* The trees of the test's setUp.
SmallTree1 == Node(LabelA, <<>>)
SmallTree2 == Node(LabelB, <<>>)
KnownTree1 ==
    Node(LabelA, <<Node(LabelA, <<Node(LabelE, <<>>), Node(LabelB, <<>>)>>),
                   Node(LabelB, <<>>), Node(LabelC, <<>>)>>)
KnownTree2 ==
    Node(LabelA, <<Node(LabelA, <<Node(LabelE, <<>>), Node(LabelB, <<>>)>>),
                   Node(LabelB, <<>>), Node(LabelX, <<>>)>>)
TestTrees == {SmallTree1, SmallTree2, KnownTree1, KnownTree2}

BuildIdle == pc = "start" /\ stack = <<>> /\ heap = <<>> /\ list = <<>> /\ visited = 0

\* Stands for the tree of a Profile not constructed yet.
NoTree == Node(<<0>>, <<>>)

InitCompare ==
    /\ pool = "bounded"
    /\ rootA = NoTree /\ rootB = NoTree
    /\ p \in 1..MaxCmpParam /\ q \in 1..MaxCmpParam
    /\ BuildIdle /\ CmpIdle /\ CacheIdle

\* setUp of the test: self.p = 2, self.q = 3.
InitKnown ==
    /\ pool = "test"
    /\ rootA = NoTree /\ rootB = NoTree
    /\ p = 2 /\ q = 3
    /\ BuildIdle /\ CmpIdle /\ CacheIdle

\* The trees compared: the test's, or every tree of at most MaxCmpNodes nodes.
CmpTrees == IF pool = "test" THEN TestTrees ELSE Trees(MaxCmpNodes)

ProfOf(x) == IF x = "A" THEN profA ELSE profB
Built == profA # NoProfile /\ profB # NoProfile

\* A = Profile(root, p, q)
NewProfileA ==
    /\ profA = NoProfile
    /\ \E t \in CmpTrees :
          /\ rootA' = t
          /\ profA' = Profile(t, p, q).list
    /\ UNCHANGED <<pool, rootB, p, q, buildVars, profB, last, cacheVars>>

\* B = Profile(root, p, q), after A
NewProfileB ==
    /\ profA # NoProfile /\ profB = NoProfile
    /\ \E t \in CmpTrees :
          /\ rootB' = t
          /\ profB' = Profile(t, p, q).list
    /\ UNCHANGED <<pool, rootA, p, q, buildVars, profA, last, cacheVars>>

\* A.intersection(A) or A.intersection(B): every ordered pair of trees is a
\* pair (rootA, rootB), so the receiver is A without loss.  `last` keeps one
\* call: a Profile is not changed by a call, so a second call would start
\* from the same Profiles.
CallIntersection ==
    /\ Built /\ last = NoCall
    /\ \E y \in {"A", "B"} :
          last' = [op |-> "intersection", x |-> "A", y |-> y,
                   value |-> Intersection(profA, ProfOf(y))]
    /\ UNCHANGED <<inVars, buildVars, profA, profB, cacheVars>>

\* A.edit_distance(A) or A.edit_distance(B).
CallEditDistance ==
    /\ Built /\ last = NoCall
    /\ \E y \in {"A", "B"} :
          last' = [op |-> "edit_distance", x |-> "A", y |-> y,
                   value |-> EditDistance(profA, ProfOf(y))]
    /\ UNCHANGED <<inVars, buildVars, profA, profB, cacheVars>>

\* len(A) or len(B)
CallLen ==
    /\ Built /\ last = NoCall
    /\ \E y \in {"A", "B"} :
          last' = [op |-> "len", x |-> y, y |-> y, value |-> Len(ProfOf(y))]
    /\ UNCHANGED <<inVars, buildVars, profA, profB, cacheVars>>

NextCompare ==
    NewProfileA \/ NewProfileB \/ CallLen \/ CallIntersection \/ CallEditDistance

SpecCompare == InitCompare /\ [][NextCompare]_vars
SpecKnown   == InitKnown /\ [][NextCompare]_vars

\* sum over every distinct gram g of min(count of g in A, count of g in B).
MultisetIntersection(A, B) ==
    Cardinality({i \in DOMAIN A :
        Cardinality({j \in 1..i : A[j] = A[i]}) <= Count(A[i], B)})

SameProfile(x, y) == x = y \/ rootA = rootB

\* C1: edit_distance lies in [0, 1]: 0 <= 2 * intersection <= len(A) + len(B),
\* and len(A) + len(B) is never 0.
C1_DistanceWithinBounds ==
    /\ last.op = "edit_distance" =>
          last.value.den > 0 /\ 0 <= last.value.num /\ last.value.num <= last.value.den
    /\ last.op = "intersection" =>
          /\ Len(ProfOf(last.x)) + Len(ProfOf(last.y)) > 0
          /\ 0 <= 2 * last.value
          /\ 2 * last.value <= Len(ProfOf(last.x)) + Len(ProfOf(last.y))

C1_Witness ==
    /\ last.op = "edit_distance" /\ last.x = "A" /\ last.y = "B"
    /\ Len(profA) # Len(profB)
    /\ 0 < last.value.num /\ last.value.num < last.value.den

\* C2: the distance of a Profile to itself, or to a Profile of the same tree,
\* p and q, is exactly 0: the intersection is the length of the Profile.
C2_IdentityDistanceZero ==
    /\ (last.op = "edit_distance" /\ SameProfile(last.x, last.y)) =>
          last.value.num = 0 /\ last.value.den > 0
    /\ (last.op = "intersection" /\ SameProfile(last.x, last.y)) =>
          last.value = Len(ProfOf(last.x))

C2_Witness ==
    /\ last.op = "edit_distance" /\ last.x = "A" /\ last.y = "B" /\ rootA = rootB
    /\ Len(profA) >= 4 /\ last.value.num = 0

\* C3: A.intersection(B) = B.intersection(A) and A.edit_distance(B) =
\* B.edit_distance(A), for labels and Profiles of different lengths too.
C3_IntersectionSymmetric ==
    /\ last.op = "intersection" =>
          last.value = Intersection(ProfOf(last.y), ProfOf(last.x))
    /\ last.op = "edit_distance" =>
          last.value = EditDistance(ProfOf(last.y), ProfOf(last.x))

C3_Witness ==
    /\ last.op = "intersection" /\ last.x = "A" /\ last.y = "B"
    /\ Len(profA) # Len(profB) /\ last.value > 0
    /\ rootA.label = LabelAA /\ rootB.label = LabelA

\* C4: A.intersection(B) is the size of the multiset intersection of the grams
\* of A and B, whatever the lengths of the labels.
C4_IntersectionIsMultisetIntersection ==
    last.op = "intersection" =>
        last.value = MultisetIntersection(ProfOf(last.x), ProfOf(last.y))

\* C7: edit_distance is 1 - 2 * I / (len(A) + len(B)), I the intersection; the
\* Profiles of a(a(e,b), b, c) and a(a(e,b), b, x) with p = 2, q = 3 have 13
\* grams each, I = 9, and the distance 8/26 rounds to 0.31.
C7_KnownDistance ==
    last.op = "edit_distance" =>
        LET A == ProfOf(last.x)
            B == ProfOf(last.y)
        IN  /\ last.value.den = Len(A) + Len(B)
            /\ last.value.num = last.value.den - 2 * Intersection(A, B)
            /\ (last.x = "A" /\ last.y = "B" /\ rootA = KnownTree1 /\ rootB = KnownTree2) =>
                   /\ Len(A) = 13 /\ Len(B) = 13 /\ last.value.den = Len(A) + Len(B)
                   /\ Intersection(A, B) = 9
                   /\ last.value = [num |-> 8, den |-> 26]
                   /\ Round2(last.value) = 31

C7_Witness ==
    /\ last.op = "edit_distance" /\ last.x = "A" /\ last.y = "B"
    /\ rootA = KnownTree1 /\ rootB = KnownTree2
    /\ Round2(last.value) = 31

----------------------------------------------------------------------------
(* functools.lru_cache on Profile.__len__ and Profile.__getitem__.  A cache *)
(* is a sequence of [key, val], the most recently used first; a Profile is  *)
(* hashed by identity, so its key is the number of the object.  The cache   *)
(* of gram_edit_distance memoizes a function of its arguments alone and is  *)
(* left out.                                                                *)

\* @functools.lru_cache(maxsize=2) on __len__
LenCacheSize == 2
\* @functools.lru_cache(maxsize=32) on __getitem__
ItemCacheSize == 32

CacheHit(cache, key) == \E i \in DOMAIN cache : cache[i].key = key
CachePos(cache, key) == CHOOSE i \in DOMAIN cache : cache[i].key = key
Without(cache, i) == SubSeq(cache, 1, i - 1) \o SubSeq(cache, i + 1, Len(cache))

\* A call through lru_cache(maxsize): a hit returns the stored value and moves
\* the entry to the front; a miss stores the computed value and drops the least
\* recently used entry of a full cache.
LruCall(cache, maxsize, key, computed) ==
    IF CacheHit(cache, key)
    THEN LET i == CachePos(cache, key)
         IN  [val |-> cache[i].val, cache |-> <<cache[i]>> \o Without(cache, i)]
    ELSE LET c == <<[key |-> key, val |-> computed]>> \o cache
         IN  [val |-> computed,
              cache |-> IF Len(c) > maxsize THEN SubSeq(c, 1, maxsize) ELSE c]

Objects == DOMAIN lists

\* The state after A = Profile(rootA, p, q) and B = Profile(rootB, p, q).
InitCache ==
    /\ pool = "bounded"
    /\ rootA \in Trees(MaxCacheNodes) /\ rootB \in Trees(MaxCacheNodes)
    /\ p = 1 /\ q = 1
    /\ BuildIdle /\ CmpIdle
    /\ lists = <<Profile(rootA, p, q).list, Profile(rootB, p, q).list>>
    /\ lenCache = <<>> /\ itemCache = <<>> /\ ret = NoCall /\ ops = 0

\* len(P)
CachedLen ==
    /\ ops < MaxOps
    /\ \E o \in Objects :
          LET r == LruCall(lenCache, LenCacheSize, <<o>>, Len(lists[o]))
          IN  /\ lenCache' = r.cache
              /\ ret' = [op |-> "len", obj |-> o, key |-> 0, value |-> r.val,
                          actual |-> Len(lists[o])]
    /\ ops' = ops + 1
    /\ UNCHANGED <<inVars, buildVars, cmpVars, lists, itemCache>>

\* P[k], k an index of self.list
CachedGetItem ==
    /\ ops < MaxOps
    /\ \E o \in Objects : \E k \in 0..(Len(lists[o]) - 1) :
          LET r == LruCall(itemCache, ItemCacheSize, <<o, k>>, lists[o][k + 1])
          IN  /\ itemCache' = r.cache
              /\ ret' = [op |-> "getitem", obj |-> o, key |-> k, value |-> r.val,
                          actual |-> lists[o][k + 1]]
    /\ ops' = ops + 1
    /\ UNCHANGED <<inVars, buildVars, cmpVars, lists, lenCache>>

\* The gram of p + q placeholders.
StarGram == Stars(p + q)

\* P.append(gram)
AppendGram ==
    /\ ops < MaxOps
    /\ \E o \in Objects : lists' = [lists EXCEPT ![o] = ProfileAppend(@, StarGram)]
    /\ ops' = ops + 1
    /\ UNCHANGED <<inVars, buildVars, cmpVars, lenCache, itemCache, ret>>

\* P.sort()
SortProfile ==
    /\ ops < MaxOps
    /\ \E o \in Objects : lists' = [lists EXCEPT ![o] = Sort(@)]
    /\ ops' = ops + 1
    /\ UNCHANGED <<inVars, buildVars, cmpVars, lenCache, itemCache, ret>>

NextCache == CachedLen \/ CachedGetItem \/ AppendGram \/ SortProfile

SpecCache == InitCache /\ [][NextCache]_vars

\* C10: len(P) returns the current number of grams of P and P[k] the gram
\* currently at position k, after any calls of len, [], append and sort.
C10_CachedReadsMatchList == ret # NoCall => ret.value = ret.actual

\* As long as a Profile is as its constructor left it, what the caches hold
\* for it is what its list holds.
Constructed(o) == Profile(IF o = 1 THEN rootA ELSE rootB, p, q).list
CacheCoherentUntilChanged ==
    /\ \A i \in DOMAIN lenCache :
          LET o == lenCache[i].key[1]
          IN  lists[o] = Constructed(o) => lenCache[i].val = Len(lists[o])
    /\ \A i \in DOMAIN itemCache :
          LET o == itemCache[i].key[1]
              k == itemCache[i].key[2]
          IN  lists[o] = Constructed(o) => itemCache[i].val = lists[o][k + 1]

====
